---------------------------- MODULE Spec2Model ----------------------------
(***************************************************************************)
(* Model of src/src/doom/dukeMain.py: the dark-matter halo profile, the    *)
(* scattering kinematics, the supernova neutrino flux, the population      *)
(* integrand and the flux/event orchestration around the adaptive          *)
(* integrator.                                                             *)
(*                                                                         *)
(* Numbers.  Real quantities are exact rationals <<n, d>> (d > 0) or       *)
(* integers in fixed units:                                                *)
(*   lengths     integer multiples of rh/16 (rh = 0.65e-3 kpc, line 38);   *)
(*               1e-8 kpc lies below one length unit                       *)
(*   angles      multiples of pi/2, so the axis [0, pi] is 0 .. 2          *)
(*   Tx          MeV (integer);  mx  MeV (rational)                        *)
(*   Ev          1e-5 MeV (integer), so that Ev/Tv - 3 = 709.782 is a      *)
(*               representable point for each species temperature          *)
(*   masses      MG in units of 1e6 solar masses; m is log10(MG/Msun)      *)
(* Square and cube roots are floor roots of numerator and denominator.     *)
(* The scaling relations whose constants live in constant.py (massBH,      *)
(* radiusSchwarzchild, _normN, _radiusSpike, get_rs) are tabulated on the  *)
(* mass grid in these units, with ri < rh < Rsp < rs as for every galaxy   *)
(* of the integration box.                                                 *)
(* Python outcomes are records: kind "val" for a returned number, or the   *)
(* name of the exception that ends the call.                               *)
(***************************************************************************)
EXTENDS Integers, Sequences, FiniteSets, TLC

VARIABLES pc, fn, args, out, domain, x, bound, val, nEval, anyNonZero

vars == <<pc, fn, args, out, domain, x, bound, val, nEval, anyNonZero>>

---------------------------------------------------------------------------
(* Bounds of the model *)

\* samples the integrator draws in one run (stands for nitn*neval)
MaxEval == 2
\* the caller's Rmax and rmax, in length units
RmaxArg == 12
rmaxArg == 12

---------------------------------------------------------------------------
(* Exact rational arithmetic *)

Abs(n) == IF n < 0 THEN -n ELSE n

RECURSIVE GCD(_, _)
GCD(a, b) == IF b = 0 THEN a ELSE GCD(b, a % b)

Norm(n, d) == LET g == GCD(Abs(n), d) IN <<n \div g, d \div g>>

Rat(n) == <<n, 1>>

RMul(a, b) ==
    LET g1 == GCD(Abs(a[1]), b[2])
        g2 == GCD(Abs(b[1]), a[2])
    IN  <<(a[1] \div g1) * (b[1] \div g2), (a[2] \div g2) * (b[2] \div g1)>>

\* b > 0
RDiv(a, b) == RMul(a, <<b[2], b[1]>>)

RAdd(a, b) ==
    LET g == GCD(a[2], b[2])
    IN  Norm(a[1] * (b[2] \div g) + b[1] * (a[2] \div g), (a[2] \div g) * b[2])

RSub(a, b) == RAdd(a, <<-b[1], b[2]>>)

RLe(a, b) == a[1] * b[2] <= b[1] * a[2]

RLt(a, b) == a[1] * b[2] < b[1] * a[2]

RIsZero(a) == a[1] = 0

RCube(a) == RMul(a, RMul(a, a))

RECURSIVE RootIter(_, _, _, _)
\* the largest s in lo .. hi with s^k <= n  (k = 2 or 3)
RootIter(n, k, lo, hi) ==
    IF lo >= hi THEN lo
    ELSE LET mid == (lo + hi + 1) \div 2
             p   == IF k = 2 THEN mid * mid ELSE mid * mid * mid
         IN  IF p <= n THEN RootIter(n, k, mid, hi)
                       ELSE RootIter(n, k, lo, mid - 1)

Isqrt(n) == RootIter(n, 2, 0, 46340)

Icbrt(n) == RootIter(n, 3, 0, 1290)

\* x ** (3/2) = sqrt(x^3)
Pow32(a) == <<Isqrt(a[1] * a[1] * a[1]), Isqrt(a[2] * a[2] * a[2])>>

\* x ** (7/3) = x^2 * x^(1/3)
Pow73(a) == Norm(a[1] * a[1] * Icbrt(a[1]), a[2] * a[2] * Icbrt(a[2]))

---------------------------------------------------------------------------
(* Python outcomes *)

Num(q) == [kind |-> "val", v |-> q]

Raise(e) == [kind |-> e, v |-> <<0, 1>>]

\* a Python flag: the objects True and False, or any other value
Flags == {"True", "False", "Other"}

NoneSigv == [isNone |-> TRUE, v |-> <<0, 1>>]

SomeSigv(q) == [isNone |-> FALSE, v |-> q]

---------------------------------------------------------------------------
(* Dark matter halo profile *)

\* self.rh = 0.65e-3 kpc, sixteen length units
rh == 16

\* the mass grid: m = log10(MG)
MGrid == {6, 9, 12}

\* 10**m, in units of 1e6 solar masses
TenPow(m) == 10 ^ (m - 6)

\* 7e7*(eta*MG/1e12)**(4/3), in units of the mass whose Schwarzschild
\* radius is one length unit
massBH(MG) == CASE MG = 1 -> 1 [] MG = 1000 -> 2 [] OTHER -> 3

\* mBH*Msun_kg*1.48e-25/kpc2cm: linear in mBH
radiusSchwarzchild(mBH) == mBH

\* (MG/Mmw)**(1/3)*rsMW
get_rs(MG) == CASE MG = 1 -> 32 [] MG = 1000 -> 48 [] OTHER -> 64

\* kpc2cm**3 in model units
kpc2cm3 == 2

\* mBH*Msun/4/pi/(fh - fi), in density units times rh**(3/2)
normN(mBH) == 64 * 200 * mBH

\* (N/rhos/rs)**(3/4)*rh**(5/8)
radiusSpike(mBH) == CASE mBH = 1 -> 24 [] mBH = 2 -> 32 [] OTHER -> 40

\* default rhosMW of dmNumberDensity, flux and event
rhosMW == 184

rhox(r, rhos, rs) ==
    LET rr   == Norm(r, rs)
        onep == RAdd(Rat(1), rr)
    IN  RDiv(Rat(rhos), RMul(rr, RMul(onep, onep)))

rhoPrimeNoInner(r, mBH) ==
    LET Rsp   == radiusSpike(mBH)
        rhoN  == RDiv(Rat(normN(mBH)), Pow32(Rat(rh)))
        rhoNp == RMul(rhoN, Pow73(Norm(rh, Rsp)))
    IN  RDiv(RMul(rhoNp, Pow73(Norm(Rsp, r))), Rat(kpc2cm3))

rhoPrime(r, mBH) ==
    LET Rs    == radiusSchwarzchild(mBH)
        ri    == 4 * Rs
        Rsp   == radiusSpike(mBH)
        rhoN  == RDiv(Rat(normN(mBH)), Pow32(Rat(rh)))
        rhoNp == RMul(rhoN, Pow73(Norm(rh, Rsp)))
        rhoP  == IF ri <= r /\ r < rh
                 THEN RMul(rhoN, RMul(RCube(RSub(Rat(1), Norm(ri, r))),
                                      Pow32(Norm(rh, r))))
                 ELSE RMul(rhoNp, Pow73(Norm(Rsp, r)))
    IN  RDiv(rhoP, Rat(kpc2cm3))

\* sigv*1e-26*tBH*year2Seconds for the default tBH, in model units
AnnTime(sigv) == RMul(sigv, <<1, 2>>)

\* rho*rhoc/(rho + rhoc)/mx
Plateau(rho, rhoc, mx) == Num(RDiv(RDiv(RMul(rho, rhoc), RAdd(rho, rhoc)), mx))

nxSpikeNoHorizon(r, mx, MG, sigv) ==
    LET mBH == massBH(MG)
        rs  == get_rs(MG)
        Rsp == radiusSpike(mBH)
    IN  IF sigv.isNone
        THEN IF r < Rsp THEN Num(RDiv(rhoPrime(r, mBH), mx))
                        ELSE Num(RDiv(rhox(r, rhosMW, rs), mx))
        ELSE IF r < Rsp
             THEN Plateau(rhoPrime(r, mBH), RDiv(mx, AnnTime(sigv.v)), mx)
             ELSE Plateau(rhox(r, rhosMW, rs), RDiv(mx, AnnTime(sigv.v)), mx)

nxSpikeNoPlateau(r, mx, MG, sigv) ==
    LET mBH == massBH(MG)
        ri  == 4 * radiusSchwarzchild(mBH)
        rs  == get_rs(MG)
        Rsp == radiusSpike(mBH)
    IN  IF r < ri THEN Num(Rat(0))
        ELSE IF r < Rsp THEN Num(RDiv(rhoPrime(r, mBH), mx))
                        ELSE Num(RDiv(rhox(r, rhosMW, rs), mx))

nxSpike(r, mx, MG, sigv) ==
    LET mBH == massBH(MG)
        Rs  == radiusSchwarzchild(mBH)
        ri  == 4 * Rs
        rs  == get_rs(MG)
        Rsp == radiusSpike(mBH)
    IN  IF sigv.isNone
        THEN IF r < ri THEN Num(Rat(0))
             ELSE IF ri <= r /\ r < Rsp
                  THEN Num(RDiv(rhoPrime(r, mBH), mx))
                  ELSE Num(RDiv(rhox(r, rhosMW, rs), mx))
        ELSE LET rhoc == RDiv(mx, AnnTime(sigv.v))
             IN  IF r < ri THEN Num(Rat(0))
                 ELSE IF ri <= r /\ r < Rsp
                      THEN Plateau(rhoPrime(r, mBH), rhoc, mx)
                      ELSE Plateau(rhox(r, rhosMW, rs), rhoc, mx)

\* def nxNFW(r,mx,rhosMW=184,rsMW=24.42,MG=None): at most five arguments
nxNFWMaxArgs == 5

\* nxNFW(r,mx,rhosMW,rsMW,MG,eta): the arguments dmNumberDensity passes
nxNFWArgsPassed == 6

\* the MG branch; dmNumberDensity never passes MG = None
nxNFW(r, mx, MG) == Num(RDiv(rhox(r, rhosMW, get_rs(MG)), mx))

dmNumberDensity(r, mx, MG, is_spike, sigv) ==
    IF is_spike = "True" THEN nxSpike(r, mx, MG, sigv)
    ELSE IF is_spike = "False"
         THEN IF nxNFWArgsPassed > nxNFWMaxArgs THEN Raise("TypeError")
                                                ELSE nxNFW(r, mx, MG)
         ELSE Raise("FlagError")

---------------------------------------------------------------------------
(* Supernova neutrinos and propagation geometry *)

\* pi, in units of pi/2
Pi == 2

\* _np.cos on the angle grid: cos(pi/2) = 6.1e-17 is below half an ulp of
\* l**2 + R**2 and leaves r unchanged
Cos(theta) == CASE theta = 0 -> 1 [] theta = 1 -> 0 [] OTHER -> -1

\* _np.sin on the angle grid is 0 only at 0: float64 sin(pi) = 1.2e-16
SinIsZero(theta) == theta = 0

get_r(l, R, theta) == Isqrt(l * l + R * R - 2 * l * R * Cos(theta))

\* fixed-point scale of the square roots
S == 10 * 10

\* Ev units per MeV
EvUnit == 1000 * S

\* an energy above every threshold of the program: float64
\* cos(pi/2)**2 = 3.7e-33 makes Ev = Tx/c2 of order 1e32 MeV
EvHuge == 2000 * 1000 * 1000

\* _np.cos(thetaCM/2)**2 for thetaCM = 0 and pi/2
CosHalfSq(thetaCM) == IF thetaCM = 0 THEN <<1, 1>> ELSE <<1, 2>>

\* sqrt(q) in units of 1/S
SqrtS(q) == Isqrt((q[1] * S * S) \div q[2])

snNuEenergy(Tx, mx, thetaCM) ==
    IF thetaCM = Pi THEN EvHuge
    ELSE LET c2 == CosHalfSq(thetaCM)
             s  == SqrtS(RAdd(Rat(1),
                              RDiv(RMul(Rat(2), RMul(c2, mx)), Rat(Tx))))
         IN  ((Tx * (S + s) * c2[2]) \div (2 * c2[1])) * (EvUnit \div S)

\* dEv/dTx, as a rational; of order 1e32 at thetaCM = pi
dEv(Tx, mx, thetaCM) ==
    IF thetaCM = Pi THEN Rat(EvHuge)
    ELSE LET c2 == CosHalfSq(thetaCM)
             xx == RDiv(mx, Rat(Tx))
             c2x == RMul(c2, xx)
             rt == <<SqrtS(RAdd(RMul(Rat(2), c2x), Rat(1))), S>>
         IN  RDiv(RDiv(RAdd(Rat(1), RDiv(RAdd(Rat(1), c2x), rt)), Rat(2)), c2)

vBDM(Tx, mx) ==
    LET txx == Rat(Tx)
    IN  RDiv(<<SqrtS(RMul(txx, RAdd(txx, RMul(Rat(2), mx)))), S>>,
             RAdd(txx, mx))

\* the Fermi-Dirac cutoff 709.782, in units of 1e-3
Cutoff == 709782

\* _np.exp returns inf from this exponent on (float64: 709.7827...)
ExpOverflowAt == 709783

\* the species temperatures, in units of 0.01 MeV
TvNue == 276
TvNueb == 401
TvNux == 626

\* Ev/Tv - 3 in units of 1e-3
FvExponent(Ev, Tv) == RSub(Norm(Ev, Tv), Rat(3000))

\* zero: whether the value is exactly 0; expArg: the arguments _np.exp got
fv(Ev, Tv) ==
    LET exponent == FvExponent(Ev, Tv)
    IN  IF RLe(exponent, Rat(Cutoff))
        THEN [zero |-> Ev = 0 \/ ~RLt(exponent, Rat(ExpOverflowAt)),
              expArg |-> {exponent}]
        ELSE [zero |-> TRUE, expArg |-> {}]

supernovaNuFlux(Ev, l) ==
    LET nue_dist  == fv(Ev, TvNue)
        nueb_dist == fv(Ev, TvNueb)
        nux_dist  == fv(Ev, TvNux)
        dists     == <<nue_dist, nueb_dist, nux_dist>>
    IN  IF l * l = 0
        THEN [kind |-> "ZeroDivisionError", zero |-> FALSE, dists |-> dists]
        ELSE [kind |-> "val",
              zero |-> nue_dist.zero /\ nueb_dist.zero /\ nux_dist.zero,
              dists |-> dists]

---------------------------------------------------------------------------
(* Diffuse boosted dark matter *)

NoPoint == [kind |-> "val", zero |-> TRUE, evaluated |-> FALSE,
            Tx |-> 0, Ev |-> 0, nx |-> <<0, 1>>]

\* l**2*sin(theta)*sin(thetaCM)*nx*dsigma0*supernovaNuFlux*(dEvdTx*vx),
\* once Ev, dEvdTx, vx and nx are there; dsigma0 is the constant 1e-35/4/pi
PointProduct(Tx, l, theta, thetaCM, Ev, dEvdTx, vx, nx, snf) ==
    IF nx.kind # "val"
    THEN [kind |-> nx.kind, zero |-> FALSE, evaluated |-> TRUE,
          Tx |-> Tx, Ev |-> Ev, nx |-> <<0, 1>>]
    ELSE IF snf.kind # "val"
    THEN [kind |-> snf.kind, zero |-> FALSE, evaluated |-> TRUE,
          Tx |-> Tx, Ev |-> Ev, nx |-> nx.v]
    ELSE [kind |-> "val",
          zero |-> \/ l * l = 0
                   \/ SinIsZero(theta)
                   \/ SinIsZero(thetaCM)
                   \/ RIsZero(nx.v)
                   \/ snf.zero
                   \/ RIsZero(RMul(dEvdTx, vx)),
          evaluated |-> TRUE,
          Tx |-> Tx, Ev |-> Ev, nx |-> nx.v]

diffSpectrum(Tx, mx, MG, R, l, theta, thetaCM, is_spike, sigv) ==
    IF get_r(l, R, theta) >= 1
    THEN PointProduct(Tx, l, theta, thetaCM,
                      snNuEenergy(Tx, mx, thetaCM),
                      dEv(Tx, mx, thetaCM),
                      vBDM(Tx, mx),
                      dmNumberDensity(get_r(l, R, theta), mx, MG, is_spike, sigv),
                      supernovaNuFlux(snNuEenergy(Tx, mx, thetaCM), l))
    ELSE NoPoint

\* the Tx' < 200 cut of both spectra, MeV
TxpCut == 200

ZeroSpectrum == [kind |-> "val", zero |-> TRUE, pref |-> {}, point |-> NoPoint]

\* the product of the positive factors pref, a factor that is 0 iff
\* zeroFactor, and the point spectrum p
Weigh(pref, zeroFactor, p) ==
    [kind |-> p.kind, zero |-> p.kind = "val" /\ (zeroFactor \/ p.zero),
     pref |-> pref, point |-> p]

\* _dbdmSpectrum; dnG, _E and rhoDotSFR are positive factors of the
\* galaxy-population module
dbdmSpectrumAtR(z, m, Tx, mx, R, l, theta, thetaCM, is_spike, sigv) ==
    LET Txp == (1 + z) * Tx
    IN  IF Txp < TxpCut
        THEN Weigh({"MG", "dnG", "1/E", "rhoDotSFR"}, FALSE,
                   diffSpectrum(Txp, mx, TenPow(m), R, l, theta, thetaCM,
                                is_spike, sigv))
        ELSE ZeroSpectrum

dbdmSpectrumWeighted(z, m, Tx, mx, R, l, theta, thetaCM, is_spike, sigv, usefit) ==
    LET Txp == (1 + z) * Tx
    IN  IF Txp < TxpCut
        THEN IF usefit \notin {"True", "False"}
             THEN [kind |-> "FlagError", zero |-> FALSE, pref |-> {},
                   point |-> NoPoint]
             ELSE Weigh({"2piR", "galArealDensity", "dnG", "1/E", "rhoDotSFR"},
                        R = 0,
                        diffSpectrum(Tx, mx, TenPow(m), R, l, theta, thetaCM,
                                     is_spike, sigv))
        ELSE ZeroSpectrum

\* dbdmSpectrum.__call__
dbdmSpectrum(z, m, Tx, mx, R, l, theta, thetaCM, is_spike, is_weighted, sigv, usefit) ==
    IF is_weighted = "True"
    THEN dbdmSpectrumWeighted(z, m, Tx, mx, R, l, theta, thetaCM, is_spike,
                              sigv, usefit)
    ELSE IF is_weighted = "False"
         THEN dbdmSpectrumAtR(z, m, Tx, mx, R, l, theta, thetaCM, is_spike,
                              sigv)
         ELSE [kind |-> "FlagError", zero |-> FALSE, pref |-> {},
               point |-> NoPoint]

---------------------------------------------------------------------------
(* flux and event: the integration domain, the integrand closure and the
   adaptive integrator that samples it *)

Axis(lo, hi) == [lo |-> lo, hi |-> hi]

\* default TxRange of event
TxRangeLo == 5
TxRangeHi == 100

\* the z and m axes
ZHi == 8
MLo == 6
MHi == 12

fluxDomain(is_average, Rmax, rmax) ==
    LET lmax == Rmax + rmax
    IN  IF is_average = "True"
        THEN <<Axis(0, ZHi), Axis(MLo, MHi), Axis(0, Rmax), Axis(0, lmax),
               Axis(0, Pi), Axis(0, Pi)>>
        ELSE <<Axis(0, ZHi), Axis(MLo, MHi), Axis(0, lmax), Axis(0, Pi),
               Axis(0, Pi)>>

eventDomain(is_average, Rmax, rmax) ==
    fluxDomain(is_average, Rmax, rmax) \o <<Axis(TxRangeLo, TxRangeHi)>>

NoBound == [z |-> 0, m |-> 0, Tx |-> 0, R |-> 0, l |-> 0, theta |-> 0,
            thetaCM |-> 0, vTx |-> 0]

\* the lambda of flux: Python x[i] is pt[i + 1]
fluxBind(pt, is_average, Tx, R) ==
    IF is_average = "True"
    THEN [z |-> pt[1], m |-> pt[2], Tx |-> Tx, R |-> pt[3], l |-> pt[4],
          theta |-> pt[5], thetaCM |-> pt[6], vTx |-> Tx]
    ELSE [z |-> pt[1], m |-> pt[2], Tx |-> Tx, R |-> R, l |-> pt[3],
          theta |-> pt[4], thetaCM |-> pt[5], vTx |-> Tx]

eventBindShifted(pt, is_average, R) ==
    IF is_average = "True"
    THEN [z |-> pt[1], m |-> pt[2], Tx |-> pt[6], R |-> pt[3], l |-> pt[4],
          theta |-> pt[5], thetaCM |-> pt[6], vTx |-> pt[7]]
    ELSE [z |-> pt[1], m |-> pt[2], Tx |-> pt[6], R |-> R, l |-> pt[3],
          theta |-> pt[4], thetaCM |-> pt[5], vTx |-> pt[6]]

\* the lambda of event
eventBind(pt, is_average, R) ==
    IF is_average = "True"
    THEN [z |-> pt[1], m |-> pt[2], Tx |-> pt[7], R |-> pt[3], l |-> pt[4],
          theta |-> pt[5], thetaCM |-> pt[6], vTx |-> pt[7]]
    ELSE [z |-> pt[1], m |-> pt[2], Tx |-> pt[6], R |-> R, l |-> pt[3],
          theta |-> pt[4], thetaCM |-> pt[5], vTx |-> pt[6]]

\* the integrand at one sample: spectrum(...) for flux, spectrum(...)*vBDM
\* for event
TimesV(sp, vIsZero) ==
    IF sp.kind = "val" THEN [sp EXCEPT !.zero = sp.zero \/ vIsZero] ELSE sp

Integrand(f, b, a) ==
    TimesV(dbdmSpectrum(b.z, b.m, b.Tx, a.mx, b.R, b.l, b.theta, b.thetaCM,
                        a.is_spike, a.is_average, a.sigv, a.usefit),
           f = "event" /\ RIsZero(vBDM(b.vTx, a.mx)))

\* the sample points of one axis: both ends and, on the angular axes, pi/2,
\* where the sines do not vanish
AxisPoints(a) ==
    {a.lo, a.hi} \cup (IF a.hi = Pi THEN {(a.lo + a.hi) \div 2} ELSE {})

RECURSIVE Points(_)
Points(d) ==
    IF d = <<>> THEN {<<>>}
    ELSE {<<p>> \o q : p \in AxisPoints(Head(d)), q \in Points(Tail(d))}

---------------------------------------------------------------------------
(* The calls a client makes *)

NoArgs == [r |-> 0, mx |-> <<1, 1>>, m |-> 6, is_spike |-> "True",
           sigv |-> NoneSigv, Tx |-> 0, R |-> 0, is_average |-> "True",
           usefit |-> "True", Ev |-> 0, l |-> 0]

\* radii of the direct density queries, in length units
MaxRadius == 48

RadiusGrid == 1 .. MaxRadius

MxGrid == {<<1, 2>>, <<1, 1>>, <<3, 1>>}

SigvGrid == {NoneSigv, SomeSigv(<<1, 1>>), SomeSigv(<<4, 1>>)}

\* neutrino energies around the cutoff of each species, in Ev units
EvGrid ==
    {10 * EvUnit, EvHuge}
    \cup UNION {{(Cutoff + 3000) * T - 1, (Cutoff + 3000) * T,
                 (Cutoff + 3000) * T + 1} : T \in {TvNue, TvNueb, TvNux}}

Init ==
    /\ pc = "idle"
    /\ fn = "none"
    /\ args = NoArgs
    /\ out = Num(Rat(0))
    /\ domain = <<>>
    /\ x = <<>>
    /\ bound = NoBound
    /\ val = ZeroSpectrum
    /\ nEval = 0
    /\ anyNonZero = FALSE

Done(o) == IF o.kind = "val" THEN "returned" ELSE "raised"

CallDmNumberDensity ==
    /\ pc = "idle"
    /\ \E r \in RadiusGrid, mx \in MxGrid, m \in MGrid, is_spike \in Flags,
          sigv \in SigvGrid :
          \E o \in {dmNumberDensity(r, mx, TenPow(m), is_spike, sigv)} :
              /\ fn' = "dmNumberDensity"
              /\ args' = [NoArgs EXCEPT !.r = r, !.mx = mx, !.m = m,
                                        !.is_spike = is_spike, !.sigv = sigv]
              /\ out' = o
              /\ pc' = Done(o)
    /\ UNCHANGED <<domain, x, bound, val, nEval, anyNonZero>>

CallRhoPrime ==
    /\ pc = "idle"
    /\ \E r \in RadiusGrid, m \in MGrid :
          /\ fn' = "_rhoPrime"
          /\ args' = [NoArgs EXCEPT !.r = r, !.m = m]
          /\ out' = Num(rhoPrime(r, massBH(TenPow(m))))
          /\ pc' = "returned"
    /\ UNCHANGED <<domain, x, bound, val, nEval, anyNonZero>>

CallSupernovaNuFlux ==
    /\ pc = "idle"
    /\ \E Ev \in EvGrid, l \in {0, 1, RmaxArg} :
          \E o \in {supernovaNuFlux(Ev, l)} :
              /\ fn' = "supernovaNuFlux"
              /\ args' = [NoArgs EXCEPT !.Ev = Ev, !.l = l]
              /\ out' = o
              /\ pc' = Done(o)
    /\ UNCHANGED <<domain, x, bound, val, nEval, anyNonZero>>

\* flux(Tx, mx, R=..., is_spike=..., is_average=..., usefit=...)
CallFlux ==
    /\ pc = "idle"
    /\ \E Tx \in {100, 200}, is_spike \in Flags, is_average \in Flags,
          usefit \in Flags, R \in {0, RmaxArg \div 2} :
          /\ is_average # "False" => R = 0
          /\ fn' = "flux"
          /\ args' = [NoArgs EXCEPT !.Tx = Tx, !.mx = <<1000, 1>>, !.R = R,
                                    !.is_spike = is_spike,
                                    !.is_average = is_average,
                                    !.usefit = usefit]
          /\ IF is_average \in {"True", "False"}
             THEN /\ domain' = fluxDomain(is_average, RmaxArg, rmaxArg)
                  /\ pc' = "sampling"
                  /\ out' = out
             ELSE /\ domain' = domain
                  /\ pc' = "raised"
                  /\ out' = [kind |-> "FlagError", zero |-> FALSE]
    /\ UNCHANGED <<x, bound, val, nEval, anyNonZero>>

\* event(mx, R=..., is_spike=..., is_average=..., usefit=...)
CallEvent ==
    /\ pc = "idle"
    /\ \E is_spike \in Flags, is_average \in Flags, usefit \in Flags,
          R \in {0, RmaxArg \div 2} :
          /\ is_average # "False" => R = 0
          /\ fn' = "event"
          /\ args' = [NoArgs EXCEPT !.mx = <<1000, 1>>, !.R = R,
                                    !.is_spike = is_spike,
                                    !.is_average = is_average,
                                    !.usefit = usefit]
          /\ IF is_average \in {"True", "False"}
             THEN /\ domain' = eventDomain(is_average, RmaxArg, rmaxArg)
                  /\ pc' = "sampling"
                  /\ out' = out
             ELSE /\ domain' = domain
                  /\ pc' = "raised"
                  /\ out' = [kind |-> "FlagError", zero |-> FALSE]
    /\ UNCHANGED <<x, bound, val, nEval, anyNonZero>>

\* the integrator draws a point of the domain and calls the integrand; an
\* exception of the integrand ends flux or event
Sample ==
    /\ pc = "sampling"
    /\ nEval < MaxEval
    /\ \E pt \in Points(domain) :
       \E b \in {IF fn = "flux"
                 THEN fluxBind(pt, args.is_average, args.Tx, args.R)
                 ELSE eventBind(pt, args.is_average, args.R)} :
       \E v \in {Integrand(fn, b, args)} :
              /\ x' = pt
              /\ bound' = b
              /\ val' = v
              /\ IF v.kind = "val"
                 THEN /\ pc' = "evaluated"
                      /\ out' = out
                 ELSE /\ pc' = "raised"
                      /\ out' = [kind |-> v.kind, zero |-> FALSE]
    /\ UNCHANGED <<fn, args, domain, nEval, anyNonZero>>

\* the integrator adds the sample's value to its estimate
Accumulate ==
    /\ pc = "evaluated"
    /\ nEval' = nEval + 1
    /\ anyNonZero' = (anyNonZero \/ ~val.zero)
    /\ pc' = "sampling"
    /\ x' = <<>>
    /\ bound' = NoBound
    /\ val' = ZeroSpectrum
    /\ UNCHANGED <<fn, args, out, domain>>

\* the integrator's mean, times the prefactors, is returned
Finish ==
    /\ pc = "sampling"
    /\ nEval = MaxEval
    /\ pc' = "returned"
    /\ out' = [kind |-> "val",
               zero |-> IF fn = "flux"
                        THEN ~anyNonZero \/ RIsZero(vBDM(args.Tx, args.mx))
                        ELSE ~anyNonZero]
    /\ UNCHANGED <<fn, args, domain, x, bound, val, nEval, anyNonZero>>

Next ==
    \/ CallDmNumberDensity
    \/ CallRhoPrime
    \/ CallSupernovaNuFlux
    \/ CallFlux
    \/ CallEvent
    \/ Sample
    \/ Accumulate
    \/ Finish

Spec == Init /\ [][Next]_vars

---------------------------------------------------------------------------
(* Properties *)

ri_of(m) == 4 * radiusSchwarzchild(massBH(TenPow(m)))

BooleanFlag(f) == f \in {"True", "False"}

InIntegration == fn \in {"flux", "event"}

NonBooleanFlag ==
    \/ fn = "dmNumberDensity" /\ ~BooleanFlag(args.is_spike)
    \/ /\ InIntegration
       /\ \/ ~BooleanFlag(args.is_spike)
          \/ ~BooleanFlag(args.is_average)
          \/ ~BooleanFlag(args.usefit)

\* C1: a call of dmNumberDensity, flux or event with a non-boolean is_spike,
\* is_average or usefit never returns a number and never evaluates an
\* integrand sample to a value; it ends in FlagError, raised before any
\* sample has been evaluated.
C1_FlagErrorImmediately ==
    NonBooleanFlag =>
        /\ pc \notin {"evaluated", "returned"}
        /\ pc = "raised" => (out.kind = "FlagError" /\ nEval = 0)

\* C2: dmNumberDensity(r, mx, MG, is_spike=False) returns exactly
\* rhox(r, rhosMW, get_rs(MG, rsMW))/mx, with no error outcome.
C2_NFWReduction ==
    (fn = "dmNumberDensity" /\ args.is_spike = "False") =>
        /\ pc = "returned"
        /\ out = Num(RDiv(rhox(args.r, rhosMW, get_rs(TenPow(args.m))), args.mx))

\* C3: with the spike profile, dmNumberDensity returns exactly 0 for every
\* r < ri = 4*radiusSchwarzchild(massBH(MG, eta)), with and without sigv.
C3_HorizonExclusion ==
    (fn = "dmNumberDensity" /\ args.is_spike = "True" /\ args.r < ri_of(args.m)) =>
        (pc = "returned" /\ out = Num(Rat(0)))

C3_Witness ==
    /\ fn = "dmNumberDensity"
    /\ args.is_spike = "True"
    /\ ~args.sigv.isNone
    /\ args.r < ri_of(args.m)
    /\ args.r >= 4
    /\ out = Num(Rat(0))

SpikeWithSigv ==
    /\ fn = "dmNumberDensity"
    /\ pc = "returned"
    /\ args.is_spike = "True"
    /\ ~args.sigv.isNone

\* mx/(sigv*tBH*year2Seconds), sigv in the units _nxSpike computes with
PlateauDensity == RDiv(args.mx, AnnTime(args.sigv.v))

\* C4 as stated: with sigv supplied and the spike profile, the returned
\* number density is at most mx/(sigv*tBH*secondsPerYear) for every mx > 0.
C4_AnnihilationCap == SpikeWithSigv => RLe(out.v, PlateauDensity)

\* C4 as amended: with sigv supplied and the spike profile, the returned
\* number density times mx is at most mx/(sigv*tBH*secondsPerYear), in both
\* branches and for every mx > 0; the number density itself is below that
\* bound whenever mx >= 1 MeV.
C4_PlateauCap ==
    SpikeWithSigv =>
        /\ RLe(RMul(out.v, args.mx), PlateauDensity)
        /\ RLe(Rat(1), args.mx) => RLe(out.v, PlateauDensity)

C4_Witness ==
    /\ SpikeWithSigv
    /\ args.mx = <<1, 2>>
    /\ ri_of(args.m) < args.r
    /\ args.r < radiusSpike(massBH(TenPow(args.m)))
    /\ ~RLe(out.v, PlateauDensity)

Sampled == InIntegration /\ x # <<>>

\* the neutrino energy the redshifted kinetic energy needs, in Ev units
EvRequired == snNuEenergy((1 + bound.z) * bound.Tx, args.mx, bound.thetaCM)

\* C5: the population integrand is exactly 0 at every sample point whose
\* redshifted kinetic energy needs a neutrino energy above 200 MeV.
C5_EvCut ==
    (Sampled /\ pc = "evaluated" /\ EvRequired > TxpCut * EvUnit) => val.zero

AllFlagsBoolean ==
    /\ BooleanFlag(args.is_spike)
    /\ BooleanFlag(args.is_average)
    /\ BooleanFlag(args.usefit)

\* C6: with boolean flags, no sample point of the closed integration box
\* ends the integrand in an error or a division by zero, and a point with
\* r < 1e-8 yields 0 without evaluating density, flux or kinematics.
C6_NoErrorInBox ==
    (Sampled /\ AllFlagsBoolean) =>
        /\ pc # "raised"
        /\ get_r(bound.l, bound.R, bound.theta) < 1 =>
              (val.zero /\ ~val.point.evaluated)

WeightedAtSample ==
    dbdmSpectrumWeighted(bound.z, bound.m, bound.Tx, args.mx, bound.R, bound.l,
                         bound.theta, bound.thetaCM, args.is_spike, args.sigv,
                         args.usefit)

AtRAtSample ==
    dbdmSpectrumAtR(bound.z, bound.m, bound.Tx, args.mx, bound.R, bound.l,
                    bound.theta, bound.thetaCM, args.is_spike, args.sigv)

\* C7: where (1+z)*Tx < 200, the weighted spectrum is the single-position
\* spectrum times 2*pi*R*arealDensity: the same point spectrum, evaluated at
\* the redshifted energy, and the same factors MG*dnG/E*rhoDotSFR.
C7_WeightedIsScaledAtR ==
    (Sampled /\ AllFlagsBoolean /\ (1 + bound.z) * bound.Tx < TxpCut) =>
        /\ WeightedAtSample.point = AtRAtSample.point
        /\ WeightedAtSample.pref = AtRAtSample.pref \cup {"2piR", "galArealDensity"}

ExpectedAxes ==
    (IF args.is_average = "True"
     THEN <<Axis(0, 8), Axis(6, 12), Axis(0, RmaxArg), Axis(0, RmaxArg + rmaxArg),
            Axis(0, Pi), Axis(0, Pi)>>
     ELSE <<Axis(0, 8), Axis(6, 12), Axis(0, RmaxArg + rmaxArg), Axis(0, Pi),
            Axis(0, Pi)>>)
    \o (IF fn = "event" THEN <<Axis(5, 100)>> ELSE <<>>)

\* C8: in flux and event the domain is (z, m, R, l, theta, thetaCM[, Tx])
\* when averaging and (z, m, l, theta, thetaCM[, Tx]) with the caller's R
\* otherwise; every coordinate is bound to the variable of its axis, and in
\* event the last axis is TxRange, whose sample goes to the spectrum and to
\* vBDM alike.
C8_DomainBinding ==
    Sampled =>
        LET k == IF args.is_average = "True" THEN 1 ELSE 0
        IN  /\ domain = ExpectedAxes
            /\ bound.z = x[1]
            /\ bound.m = x[2]
            /\ bound.R = IF k = 1 THEN x[3] ELSE args.R
            /\ bound.l = x[3 + k]
            /\ bound.theta = x[4 + k]
            /\ bound.thetaCM = x[5 + k]
            /\ bound.Tx = IF fn = "event" THEN x[6 + k] ELSE args.Tx
            /\ bound.vTx = bound.Tx
            /\ Len(x) = Len(domain)
            /\ \A i \in 1 .. Len(x) : domain[i].lo <= x[i] /\ x[i] <= domain[i].hi

C8_Witness ==
    /\ fn = "event"
    /\ pc = "evaluated"
    /\ args.is_average = "True"
    /\ bound.R = RmaxArg
    /\ bound.thetaCM = 1
    /\ bound.Tx = 5
    /\ bound.vTx = 5

AboveCutoff(T) == ~RLe(FvExponent(args.Ev, T), Rat(Cutoff))

\* C9: _fv is exactly 0 when Ev/Tv - 3 exceeds 709.782, positive at or
\* below it, the exponential is never taken above it, and supernovaNuFlux
\* is exactly 0 once all three species are above the cutoff.
C9_FvCutoff ==
    (fn = "supernovaNuFlux" /\ pc # "idle") =>
        /\ \A i \in 1 .. 3 :
              LET T == <<TvNue, TvNueb, TvNux>>[i]
              IN  IF AboveCutoff(T)
                  THEN out.dists[i].zero /\ out.dists[i].expArg = {}
                  ELSE ~out.dists[i].zero
        /\ (\A T \in {TvNue, TvNueb, TvNux} : AboveCutoff(T)) =>
              (out.kind = "val" /\ out.zero)

\* rhoN*(1 - ri/r)^3*(rh/r)^(3/2), in cm^-3 units
SpikeInner(r, m) ==
    RDiv(RMul(RDiv(Rat(normN(massBH(TenPow(m)))), Pow32(Rat(rh))),
              RMul(RCube(RSub(Rat(1), Norm(ri_of(m), r))), Pow32(Norm(rh, r)))),
         Rat(kpc2cm3))

\* rhoN*(rh/Rsp)^(7/3)*(Rsp/r)^(7/3), in cm^-3 units
SpikeOuter(r, m) ==
    RDiv(RMul(RMul(RDiv(Rat(normN(massBH(TenPow(m)))), Pow32(Rat(rh))),
                   Pow73(Norm(rh, radiusSpike(massBH(TenPow(m)))))),
              Pow73(Norm(radiusSpike(massBH(TenPow(m))), r))),
         Rat(kpc2cm3))

\* C10 as stated: _rhoPrime returns 0 for r < ri, the inner formula for
\* ri <= r < rh and the outer power law for r >= rh.
C10_ThreeRegimes ==
    fn = "_rhoPrime" =>
        out.v = IF args.r < ri_of(args.m) THEN Rat(0)
                ELSE IF args.r < rh THEN SpikeInner(args.r, args.m)
                ELSE SpikeOuter(args.r, args.m)

\* C10 as amended: _rhoPrime selects one of two regimes: the inner formula
\* for ri <= r < rh and the outer power law for every other radius, r < ri
\* included.
C10_TwoRegimes ==
    fn = "_rhoPrime" =>
        out.v = IF ri_of(args.m) <= args.r /\ args.r < rh
                THEN SpikeInner(args.r, args.m)
                ELSE SpikeOuter(args.r, args.m)

C10_Witness ==
    /\ fn = "_rhoPrime"
    /\ args.r < ri_of(args.m)
    /\ out.v = SpikeOuter(args.r, args.m)
    /\ ~RIsZero(out.v)

===========================================================================
